---- MODULE Spec2Model ----
(***************************************************************************)
(* Model of two commands of the rosa command-line tool:                    *)
(*   'rosa delete oidc-config'  (cmd/dlt/oidcconfig/cmd.go)                *)
(*   'rosa create ingress'      (cmd/create/ingress/cmd.go)                *)
(* One behaviour is one run of one command.  Every remote call is two      *)
(* steps, the issue of the call and its return, so that the calls in       *)
(* flight are visible in the state.  Strings that the code parses are      *)
(* sequences of one-character strings.                                     *)
(***************************************************************************)
EXTENDS Integers, Sequences, FiniteSets, TLC

(***************************************************************************)
(* Bounds of the input domains.                                            *)
(***************************************************************************)
\* longest label-match string
MaxLabelLen == 3
\* most dash-separated parts of a secret resource name after the prefix
MaxParts == 2

(***************************************************************************)
(* Program constants.                                                      *)
(***************************************************************************)
ModeAuto == "auto"
ModeManual == "manual"
Modes == {ModeAuto, ModeManual}
secretsManagerService == "secretsmanager"
prefixForPrivateKeySecret == "rosa-private-key-"
ClusterStateReady == "ready"

(***************************************************************************)
(* Input domains.                                                          *)
(***************************************************************************)
\* values of the --mode flag as aws.GetMode may hand them over
ModeStrings == Modes \cup {"", "hosted"}
Regions == {"us-east-1", "us-west-2"}
Services == {secretsManagerService, "s3"}
PartChars == {"x", "y"}
LabelChars == {"a", "=", ",", " "}
ClusterStates == {ClusterStateReady, "installing", "error"}

SeqsUpTo(S, n) == UNION {[1..k -> S] : k \in 0..n}

LabelStrings == SeqsUpTo(LabelChars, MaxLabelLen)

\* a secret resource name: the optional prefix, then parts joined by "-"
ResourceNames ==
    [prefix : {"", prefixForPrivateKeySecret},
     parts : SeqsUpTo(PartChars, MaxParts) \ {<<>>}]

NoResource == [prefix |-> "", parts |-> <<>>]
EmptyArn == [kind |-> "empty", Service |-> "", Region |-> "", Resource |-> NoResource]
InvalidArn == [kind |-> "invalid", Service |-> "", Region |-> "", Resource |-> NoResource]
ValidArns == [kind : {"arn"}, Service : Services, Region : Regions, Resource : ResourceNames]
ArnValues == {EmptyArn, InvalidArn} \cup ValidArns

(***************************************************************************)
(* Pure functions.                                                         *)
(***************************************************************************)
\* arn.Parse of the AWS SDK: the fields of a well-formed ARN, or an error
\* and the zero ARN
ArnParse(a) ==
    IF a.kind = "arn"
    THEN [err |-> FALSE, Service |-> a.Service, Region |-> a.Region, Resource |-> a.Resource]
    ELSE [err |-> TRUE, Service |-> "", Region |-> "", Resource |-> NoResource]

\* strings.TrimPrefix(secretResourceName, prefixForPrivateKeySecret)
TrimPrefix(name, prefix) ==
    IF name.prefix = prefix THEN [name EXCEPT !.prefix = ""] ELSE name

\* index := strings.LastIndex(bucketName, "-"); bucketName[:index] when a
\* dash exists.  The name here has no prefix left, its dashes are the ones
\* between its parts.
CutAtLastDash(name) ==
    IF name.prefix = "" /\ Len(name.parts) > 1
    THEN [name EXCEPT !.parts = SubSeq(name.parts, 1, Len(name.parts) - 1)]
    ELSE name

\* the bucket name buildOidcConfigInput derives from the secret resource name
BucketNameOf(secretResourceName, hosted) ==
    LET trimmed == TrimPrefix(secretResourceName, prefixForPrivateKeySecret)
    IN IF ~hosted THEN CutAtLastDash(trimmed) ELSE trimmed

\* variant: the URL is built without the region
OidcProviderUrl_NoRegion(bucketName, rgn) ==
    <<"https://", bucketName, ".s3.amazonaws.com">>

\* the URL handed to the OIDC provider deletion
OidcProviderUrl(bucketName, rgn) ==
    <<"https://", bucketName, ".s3.", rgn, ".amazonaws.com">>


(***************************************************************************)
(* strings helpers of create ingress, on sequences of characters.          *)
(***************************************************************************)
Contains(s, c) == \E i \in 1..Len(s) : s[i] = c

\* index of the first c in s, 0 when there is none
RECURSIVE IndexFrom(_, _, _)
IndexFrom(s, c, i) ==
    IF i > Len(s) THEN 0
    ELSE IF s[i] = c THEN i
    ELSE IndexFrom(s, c, i + 1)

\* strings.Split(s, sep) for a one-character separator: always at least one
\* element, empty elements kept
RECURSIVE Split(_, _)
Split(s, sep) ==
    LET i == IndexFrom(s, sep, 1)
    IN IF i = 0 THEN <<s>>
       ELSE <<SubSeq(s, 1, i - 1)>> \o Split(SubSeq(s, i + 1, Len(s)), sep)

RECURSIVE TrimLeft(_)
TrimLeft(s) ==
    IF s # <<>> /\ s[1] = " " THEN TrimLeft(Tail(s)) ELSE s

RECURSIVE TrimRight(_)
TrimRight(s) ==
    IF s # <<>> /\ s[Len(s)] = " " THEN TrimRight(SubSeq(s, 1, Len(s) - 1)) ELSE s

\* strings.TrimSpace
TrimSpace(s) == TrimRight(TrimLeft(s))

\* routeSelectors[key] = value
MapPut(m, key, value) ==
    [k \in DOMAIN m \cup {key} |-> IF k = key THEN value ELSE m[k]]

EmptyMap == [k \in {} |-> <<>>]

\* the loop of getRouteSelector over the comma-separated elements
RECURSIVE RouteSelectorLoop(_, _)
RouteSelectorLoop(elems, routeSelectors) ==
    IF elems = <<>> THEN [err |-> FALSE, sel |-> routeSelectors]
    ELSE IF ~Contains(Head(elems), "=") THEN [err |-> TRUE, sel |-> EmptyMap]
    ELSE LET tokens == Split(Head(elems), "=")
         IN RouteSelectorLoop(Tail(elems),
                MapPut(routeSelectors, TrimSpace(tokens[1]), TrimSpace(tokens[2])))

getRouteSelector(labelMatch) ==
    IF labelMatch = <<>> THEN [err |-> FALSE, sel |-> EmptyMap]
    ELSE RouteSelectorLoop(Split(labelMatch, ","), EmptyMap)

\* labelValidator on a string value: nil exactly when getRouteSelector
\* returns no error
labelValidator(val) == ~getRouteSelector(val).err

(***************************************************************************)
(* Strategy selection of delete oidc-config.                               *)
(***************************************************************************)
HostedStrategy == "DeleteRedHatHostedOidcConfigAutoStrategy"
AutoStrategy == "DeleteOidcConfigAutoStrategy"
ManualStrategy == "DeleteOidcConfigManualStrategy"
NoStrategy == "nil"

NoInput == [BucketName |-> NoResource, PrivateKeySecretArn |-> EmptyArn]

\* a strategy value: its type and the oidcConfig field it holds
StrategyOf(type, input) == [type |-> type, oidcConfig |-> input]
NilStrategy == StrategyOf(NoStrategy, NoInput)

\* variant: the mode is switched on first and the flag is looked at only
\* in the auto case
getOidcConfigStrategy_ModeFirst(m, input, hosted) ==
    IF m = ModeAuto
    THEN [strategy |-> StrategyOf(IF hosted THEN HostedStrategy ELSE AutoStrategy, input),
          err |-> FALSE]
    ELSE IF m = ModeManual THEN [strategy |-> StrategyOf(ManualStrategy, input), err |-> FALSE]
    ELSE [strategy |-> NilStrategy, err |-> TRUE]

\* args.redHatHosted is the parameter hosted
getOidcConfigStrategy(m, input, hosted) ==
    IF hosted THEN [strategy |-> StrategyOf(HostedStrategy, input), err |-> FALSE]
    ELSE IF m = ModeAuto THEN [strategy |-> StrategyOf(AutoStrategy, input), err |-> FALSE]
    ELSE IF m = ModeManual THEN [strategy |-> StrategyOf(ManualStrategy, input), err |-> FALSE]
    ELSE [strategy |-> NilStrategy, err |-> TRUE]


(***************************************************************************)
(* State.                                                                  *)
(***************************************************************************)
VARIABLES
    cmd,             \* the command of this run
    pc,              \* position of run
    exitCode,        \* -1 while the process runs, then the exit code
    reported,        \* messages of r.Reporter, in order
    printed,         \* command lines written to standard output
    calls,           \* remote calls issued, in order, each with its status
    deleted,         \* remote resources a successful delete call removed
    isTerminal,      \* r.Reporter.IsTerminal()
    interactiveOn,   \* interactive.Enabled()
    redHatHosted,    \* args.redHatHosted
    modeChanged,     \* cmd.Flags().Changed("mode")
    mode,            \* local mode of run
    region,          \* args.region
    secretArn,       \* args.oidcPrivateKeySecretArn
    bucketName,      \* local bucketName of buildOidcConfigInput
    oidcConfigInput, \* the OidcConfigInput of the strategy
    strategy,        \* the selected DeleteOidcConfigStrategy
    providerArgs,    \* arguments of the oidcprovider.Cmd.Run calls
    labelMatch,      \* local labelMatch of create ingress
    routeSelectors,  \* result of getRouteSelector
    cluster,         \* the fetched cluster
    private,         \* local private
    nlb,             \* local nlb
    ingress,         \* the built ingress
    ingresses,       \* ingresses the control plane created
    unit             \* a function applied on its own: its arguments and result

vars == <<cmd, pc, exitCode, reported, printed, calls, deleted, isTerminal,
          interactiveOn, redHatHosted, modeChanged, mode, region, secretArn,
          bucketName, oidcConfigInput, strategy, providerArgs, labelMatch,
          routeSelectors, cluster, private, nlb, ingress, ingresses, unit>>

flagVars == <<cmd, isTerminal, redHatHosted, modeChanged, unit>>
oidcVars == <<mode, region, secretArn, bucketName, oidcConfigInput, strategy, providerArgs>>
ingressVars == <<labelMatch, routeSelectors, cluster, private, nlb, ingress, ingresses>>

DeleteOidcConfigCmd == "delete oidc-config"
CreateIngressCmd == "create ingress"

NoCluster == [fetched |-> FALSE, privateLink |-> FALSE, state |-> ""]
NoIngress == [built |-> FALSE, listening |-> "", loadBalancerType |-> "",
              hasRouteSelectors |-> FALSE, routeSelectors |-> EmptyMap]

\* no function is applied on its own
NoUnit == [fn |-> "none"]

InitCommon ==
    /\ exitCode = -1
    /\ unit = NoUnit
    /\ reported = <<>>
    /\ printed = <<>>
    /\ calls = <<>>
    /\ deleted = {}
    /\ isTerminal \in BOOLEAN
    /\ interactiveOn \in BOOLEAN
    /\ strategy = NilStrategy
    /\ providerArgs = <<>>
    /\ routeSelectors = EmptyMap
    /\ cluster = NoCluster
    /\ ingress = NoIngress
    /\ ingresses = <<>>

InitDeleteOidcConfig ==
    /\ cmd = DeleteOidcConfigCmd
    /\ pc = "GetMode"
    /\ redHatHosted \in BOOLEAN
    /\ modeChanged \in BOOLEAN
    /\ secretArn \in ArnValues
    /\ labelMatch = <<>>
    /\ private = FALSE
    /\ nlb = FALSE

InitCreateIngress ==
    /\ cmd = CreateIngressCmd
    /\ pc = "AskLabelMatch"
    /\ redHatHosted = FALSE
    /\ modeChanged = FALSE
    /\ secretArn = EmptyArn
    /\ labelMatch \in LabelStrings
    /\ private \in BOOLEAN
    /\ nlb \in BOOLEAN

\* the locals of run before its first statement
InitLocals ==
    /\ mode = ""
    /\ region = ""
    /\ bucketName = NoResource
    /\ oidcConfigInput = NoInput

Init == InitCommon /\ InitLocals /\ (InitDeleteOidcConfig \/ InitCreateIngress)

(***************************************************************************)
(* Reporter, exit and remote-call steps shared by the actions.             *)
(***************************************************************************)
Report(level, msg) == reported' = Append(reported, [level |-> level, msg |-> msg])

\* r.Reporter.Infof under "if r.Reporter.IsTerminal()"
InfoIfTerminal(msg) ==
    reported' = IF isTerminal THEN Append(reported, [level |-> "info", msg |-> msg])
                ELSE reported

\* os.Exit(code)
Exit(code) == pc' = "exited" /\ exitCode' = code

\* r.Reporter.Errorf(msg); os.Exit(1)
ErrorExit(msg) == Report("error", msg) /\ Exit(1)

\* run continues at the next position
Goto(next) == pc' = next /\ exitCode' = exitCode

\* the call leaves the process and has not returned
Issue(op, arg) ==
    calls' = Append(calls, [op |-> op, arg |-> arg, status |-> "inflight", result |-> "none"])

Pending(op) == calls # <<>> /\ calls[Len(calls)].op = op /\ calls[Len(calls)].status = "inflight"

\* the call returns with status "ok" or "failed"
Return(status) == calls' = [calls EXCEPT ![Len(calls)].status = status]

\* the call returns a value
ReturnValue(value) ==
    calls' = [calls EXCEPT ![Len(calls)].status = "ok", ![Len(calls)].result = value]


(***************************************************************************)
(* delete oidc-config: run.                                                *)
(***************************************************************************)
\* mode, err := aws.GetMode()
GetMode ==
    /\ pc = "GetMode"
    /\ \/ /\ ErrorExit("Invalid mode")
          /\ UNCHANGED mode
       \/ /\ \E m \in ModeStrings : mode' = m
          /\ Goto("CheckRedHatHosted")
          /\ UNCHANGED reported
    /\ UNCHANGED <<flagVars, ingressVars, printed, calls, deleted, interactiveOn,
                   region, secretArn, bucketName, oidcConfigInput, strategy, providerArgs>>

\* if args.redHatHosted && mode != aws.ModeAuto
CheckRedHatHosted ==
    /\ pc = "CheckRedHatHosted"
    /\ IF redHatHosted /\ mode # ModeAuto
       THEN /\ Report("warn", "--rh-hosted param is not supported outside --mode auto flow.")
            /\ Exit(1)
       ELSE /\ Goto("GetRegion")
            /\ UNCHANGED reported
    /\ UNCHANGED <<flagVars, oidcVars, ingressVars, printed, calls, deleted, interactiveOn>>

\* region, err := aws.GetRegion(arguments.GetRegion()); args.region = region
GetRegion ==
    /\ pc = "GetRegion"
    /\ \/ /\ ErrorExit("Error getting region")
          /\ UNCHANGED region
       \/ /\ \E rgn \in Regions : region' = rgn
          /\ Goto("EnableInteractive")
          /\ UNCHANGED reported
    /\ UNCHANGED <<flagVars, ingressVars, printed, calls, deleted, interactiveOn,
                   mode, secretArn, bucketName, oidcConfigInput, strategy, providerArgs>>

\* if !interactive.Enabled() && !cmd.Flags().Changed("mode") { interactive.Enable() }
EnableInteractive ==
    /\ pc = "EnableInteractive"
    /\ interactiveOn' = IF ~interactiveOn /\ ~modeChanged THEN TRUE ELSE interactiveOn
    /\ Goto("AskMode")
    /\ UNCHANGED <<flagVars, oidcVars, ingressVars, reported, printed, calls, deleted>>

\* if interactive.Enabled() { mode, err = interactive.GetOption(... Options: aws.Modes) }
AskMode ==
    /\ pc = "AskMode"
    /\ IF interactiveOn
       THEN \/ /\ ErrorExit("Expected a valid OIDC provider creation mode")
               /\ UNCHANGED mode
            \/ /\ \E m \in Modes : mode' = m
               /\ Goto("AskSecretArn")
               /\ UNCHANGED reported
       ELSE /\ Goto("AskSecretArn")
            /\ UNCHANGED <<mode, reported>>
    /\ UNCHANGED <<flagVars, ingressVars, printed, calls, deleted, interactiveOn,
                   region, secretArn, bucketName, oidcConfigInput, strategy, providerArgs>>

\* lines 130-154: the secret ARN is asked for when it is empty or the run is
\* interactive, then validated and stored in args
AskSecretArn ==
    /\ pc = "AskSecretArn"
    /\ IF secretArn = EmptyArn \/ interactiveOn
       THEN \/ /\ ErrorExit("Expected a valid ARN to the secret containing the private key")
               /\ UNCHANGED secretArn
            \/ \E answer \in ArnValues :
                  \/ /\ ErrorExit("ARNValidator")
                     /\ UNCHANGED secretArn
                  \/ /\ ArnParse(answer).Service # secretsManagerService
                     /\ ErrorExit("Supplied secret ARN is not a valid Secrets Manager ARN")
                     /\ UNCHANGED secretArn
                  \/ /\ ArnParse(answer).Service = secretsManagerService
                     /\ secretArn' = answer
                     /\ Goto("BuildOidcConfigInput")
                     /\ UNCHANGED reported
       ELSE /\ Goto("BuildOidcConfigInput")
            /\ UNCHANGED <<secretArn, reported>>
    /\ UNCHANGED <<flagVars, ingressVars, printed, calls, deleted, interactiveOn,
                   mode, region, bucketName, oidcConfigInput, strategy, providerArgs>>

\* buildOidcConfigInput up to the call of HasAClusterUsingOidcConfig
BuildOidcConfigInput ==
    /\ pc = "BuildOidcConfigInput"
    /\ LET parsedSecretArn == ArnParse(secretArn)
       IN IF parsedSecretArn.err
          THEN /\ ErrorExit("There was a problem parsing secret ARN")
               /\ UNCHANGED <<bucketName, calls>>
          ELSE IF parsedSecretArn.Service # secretsManagerService
          THEN /\ ErrorExit("Supplied secret ARN is not a valid Secrets Manager ARN")
               /\ UNCHANGED <<bucketName, calls>>
          ELSE IF region # parsedSecretArn.Region
          THEN /\ ErrorExit("Secret region differs from chosen region")
               /\ UNCHANGED <<bucketName, calls>>
          ELSE \/ /\ ErrorExit("There was a problem parsing secret ARN")
                  /\ UNCHANGED <<bucketName, calls>>
               \/ /\ bucketName' = BucketNameOf(parsedSecretArn.Resource, redHatHosted)
                  /\ Issue("HasAClusterUsingOidcConfig", bucketName')
                  /\ Goto("HasAClusterUsingOidcConfig")
                  /\ UNCHANGED reported
    /\ UNCHANGED <<flagVars, ingressVars, printed, deleted, interactiveOn,
                   mode, region, secretArn, oidcConfigInput, strategy, providerArgs>>

\* variant: the answer of the control plane is not looked at
HasAClusterUsingOidcConfigReturns_IgnoresAnswer ==
    /\ pc = "HasAClusterUsingOidcConfig"
    /\ Pending("HasAClusterUsingOidcConfig")
    /\ \/ /\ Return("failed")
          /\ ErrorExit("There was a problem checking if any clusters are using OIDC config")
          /\ UNCHANGED oidcConfigInput
       \/ \E hasClusterUsingOidcConfig \in BOOLEAN :
             /\ ReturnValue(hasClusterUsingOidcConfig)
             /\ oidcConfigInput' = [BucketName |-> bucketName,
                                    PrivateKeySecretArn |-> secretArn]
             /\ Goto("GetOidcConfigStrategy")
             /\ UNCHANGED reported
    /\ UNCHANGED <<flagVars, ingressVars, printed, deleted, interactiveOn,
                   mode, region, secretArn, bucketName, strategy, providerArgs>>

\* the answer of the control plane and the rest of buildOidcConfigInput
HasAClusterUsingOidcConfigReturns ==
    /\ pc = "HasAClusterUsingOidcConfig"
    /\ Pending("HasAClusterUsingOidcConfig")
    /\ \/ /\ Return("failed")
          /\ ErrorExit("There was a problem checking if any clusters are using OIDC config")
          /\ UNCHANGED oidcConfigInput
       \/ \E hasClusterUsingOidcConfig \in BOOLEAN :
             /\ ReturnValue(hasClusterUsingOidcConfig)
             /\ IF hasClusterUsingOidcConfig
                THEN /\ ErrorExit("There are clusters using OIDC config, can't delete the configuration")
                     /\ UNCHANGED oidcConfigInput
                ELSE /\ oidcConfigInput' = [BucketName |-> bucketName,
                                            PrivateKeySecretArn |-> secretArn]
                     /\ Goto("GetOidcConfigStrategy")
                     /\ UNCHANGED reported
    /\ UNCHANGED <<flagVars, ingressVars, printed, deleted, interactiveOn,
                   mode, region, secretArn, bucketName, strategy, providerArgs>>

\* oidcConfigStrategy, err := getOidcConfigStrategy(mode, oidcConfigInput)
GetOidcConfigStrategy ==
    /\ pc = "GetOidcConfigStrategy"
    /\ LET selected == getOidcConfigStrategy(mode, oidcConfigInput, redHatHosted)
       IN /\ strategy' = selected.strategy
          /\ IF selected.err
             THEN ErrorExit("Invalid mode. Allowed values are [auto manual]")
             ELSE /\ Goto("Execute")
                  /\ UNCHANGED reported
    /\ UNCHANGED <<flagVars, ingressVars, printed, calls, deleted, interactiveOn,
                   mode, region, secretArn, bucketName, oidcConfigInput, providerArgs>>


(***************************************************************************)
(* DeleteRedHatHostedOidcConfigAutoStrategy.execute                        *)
(***************************************************************************)
HostedExecute ==
    /\ pc = "Execute"
    /\ strategy.type = HostedStrategy
    /\ InfoIfTerminal("Deleting Red Hat hosted OIDC configuration")
    /\ Issue("DeleteRedHatHostedOidcConfig", "")
    /\ Goto("HostedDeleteOidcConfig")
    /\ UNCHANGED <<flagVars, oidcVars, ingressVars, printed, deleted, interactiveOn>>

HostedDeleteOidcConfigReturns ==
    /\ pc = "HostedDeleteOidcConfig"
    /\ Pending("DeleteRedHatHostedOidcConfig")
    /\ \/ /\ Return("failed")
          /\ ErrorExit("There was a problem deleting Red Hat Hosted OIDC Configuration")
          /\ UNCHANGED deleted
       \/ /\ Return("ok")
          /\ deleted' = deleted \cup {"hosted oidc config"}
          /\ Goto("HostedDeleteSecret")
          /\ UNCHANGED reported
    /\ UNCHANGED <<flagVars, oidcVars, ingressVars, printed, interactiveOn>>

HostedDeleteSecret ==
    /\ pc = "HostedDeleteSecret"
    /\ Issue("DeleteSecretInSecretsManager", strategy.oidcConfig.PrivateKeySecretArn)
    /\ Goto("HostedDeleteSecretWait")
    /\ UNCHANGED <<flagVars, oidcVars, ingressVars, reported, printed, deleted, interactiveOn>>

HostedDeleteSecretReturns ==
    /\ pc = "HostedDeleteSecretWait"
    /\ Pending("DeleteSecretInSecretsManager")
    /\ \/ /\ Return("failed")
          /\ ErrorExit("There was a problem deleting private key from secrets manager")
          /\ UNCHANGED deleted
       \/ /\ Return("ok")
          /\ deleted' = deleted \cup {"secret"}
          /\ InfoIfTerminal("Deleted OIDC configuration")
          /\ Goto("RunOidcProvider")
    /\ UNCHANGED <<flagVars, oidcVars, ingressVars, printed, interactiveOn>>

(***************************************************************************)
(* DeleteOidcConfigAutoStrategy.execute                                    *)
(***************************************************************************)
AutoExecute ==
    /\ pc = "Execute"
    /\ strategy.type = AutoStrategy
    /\ InfoIfTerminal("Deleting OIDC configuration")
    /\ Issue("DeleteSecretInSecretsManager", strategy.oidcConfig.PrivateKeySecretArn)
    /\ Goto("AutoDeleteSecret")
    /\ UNCHANGED <<flagVars, oidcVars, ingressVars, printed, deleted, interactiveOn>>

\* variant: the failed secret deletion is reported but run does not exit
AutoDeleteSecretReturns_NoExit ==
    /\ pc = "AutoDeleteSecret"
    /\ Pending("DeleteSecretInSecretsManager")
    /\ \/ /\ Return("failed")
          /\ Report("error", "There was a problem deleting private key from secrets manager")
          /\ Goto("AutoDeleteS3Bucket")
          /\ UNCHANGED deleted
       \/ /\ Return("ok")
          /\ deleted' = deleted \cup {"secret"}
          /\ Goto("AutoDeleteS3Bucket")
          /\ UNCHANGED reported
    /\ UNCHANGED <<flagVars, oidcVars, ingressVars, printed, interactiveOn>>

AutoDeleteSecretReturns ==
    /\ pc = "AutoDeleteSecret"
    /\ Pending("DeleteSecretInSecretsManager")
    /\ \/ /\ Return("failed")
          /\ ErrorExit("There was a problem deleting private key from secrets manager")
          /\ UNCHANGED deleted
       \/ /\ Return("ok")
          /\ deleted' = deleted \cup {"secret"}
          /\ Goto("AutoDeleteS3Bucket")
          /\ UNCHANGED reported
    /\ UNCHANGED <<flagVars, oidcVars, ingressVars, printed, interactiveOn>>

AutoDeleteS3Bucket ==
    /\ pc = "AutoDeleteS3Bucket"
    /\ Issue("DeleteS3Bucket", strategy.oidcConfig.BucketName)
    /\ Goto("AutoDeleteS3BucketWait")
    /\ UNCHANGED <<flagVars, oidcVars, ingressVars, reported, printed, deleted, interactiveOn>>

\* variant: a failed bucket deletion restores the secret deleted before
AutoDeleteS3BucketReturns_Restores ==
    /\ pc = "AutoDeleteS3BucketWait"
    /\ Pending("DeleteS3Bucket")
    /\ \/ /\ Return("failed")
          /\ ErrorExit("There was a problem deleting S3 bucket")
          /\ deleted' = deleted \ {"secret"}
       \/ /\ Return("ok")
          /\ deleted' = deleted \cup {"bucket"}
          /\ InfoIfTerminal("Deleted OIDC configuration")
          /\ Goto("RunOidcProvider")
    /\ UNCHANGED <<flagVars, oidcVars, ingressVars, printed, interactiveOn>>

AutoDeleteS3BucketReturns ==
    /\ pc = "AutoDeleteS3BucketWait"
    /\ Pending("DeleteS3Bucket")
    /\ \/ /\ Return("failed")
          /\ ErrorExit("There was a problem deleting S3 bucket")
          /\ UNCHANGED deleted
       \/ /\ Return("ok")
          /\ deleted' = deleted \cup {"bucket"}
          /\ InfoIfTerminal("Deleted OIDC configuration")
          /\ Goto("RunOidcProvider")
    /\ UNCHANGED <<flagVars, oidcVars, ingressVars, printed, interactiveOn>>

(***************************************************************************)
(* DeleteOidcConfigManualStrategy.execute                                  *)
(***************************************************************************)
deleteSecretCommand(privateKeySecretArn, rgn) ==
    [builder |-> "SecretsManager", command |-> "DeleteSecret",
     params |-> <<<<"SecretID", privateKeySecretArn>>, <<"Region", rgn>>>>]

emptyS3BucketCommand(name) ==
    [builder |-> "S3", command |-> "Remove",
     params |-> <<<<"s3://", name>>, <<"Recursive">>>>]

deleteS3BucketCommand(name) ==
    [builder |-> "S3", command |-> "RemoveBucket",
     params |-> <<<<"s3://", name>>>>]

\* variant: the bucket is removed before it is emptied
ManualCommands_BucketFirst(input, rgn) ==
    <<deleteSecretCommand(input.PrivateKeySecretArn, rgn),
      deleteS3BucketCommand(input.BucketName),
      emptyS3BucketCommand(input.BucketName)>>

ManualCommands(input, rgn) ==
    <<deleteSecretCommand(input.PrivateKeySecretArn, rgn),
      emptyS3BucketCommand(input.BucketName),
      deleteS3BucketCommand(input.BucketName)>>

\* variant: the manual strategy deletes the secret itself
ManualExecute_DeletesSecret ==
    /\ pc = "Execute"
    /\ strategy.type = ManualStrategy
    /\ printed' = printed \o ManualCommands(strategy.oidcConfig, region)
    /\ Issue("DeleteSecretInSecretsManager", strategy.oidcConfig.PrivateKeySecretArn)
    /\ Goto("RunOidcProvider")
    /\ UNCHANGED <<flagVars, oidcVars, ingressVars, reported, deleted, interactiveOn>>

\* fmt.Println(awscb.JoinCommands(commands)): the commands come out in the
\* order of the slice
ManualExecute ==
    /\ pc = "Execute"
    /\ strategy.type = ManualStrategy
    /\ printed' = printed \o ManualCommands(strategy.oidcConfig, region)
    /\ Goto("RunOidcProvider")
    /\ UNCHANGED <<flagVars, oidcVars, ingressVars, reported, calls, deleted, interactiveOn>>

(***************************************************************************)
(* The follow-up OIDC provider deletion.                                   *)
(***************************************************************************)
\* oidcprovider.Cmd.Run(oidcprovider.Cmd, []string{"", mode, url})
RunOidcProvider ==
    /\ pc = "RunOidcProvider"
    /\ providerArgs' = Append(providerArgs,
           [mode |-> mode, url |-> OidcProviderUrl(oidcConfigInput.BucketName, region)])
    /\ Goto("OidcProvider")
    /\ UNCHANGED <<flagVars, ingressVars, reported, printed, calls, deleted, interactiveOn,
                   mode, region, secretArn, bucketName, oidcConfigInput, strategy>>

\* the provider deletion ends: it returns and run ends with it, or it
\* reports an error and exits
OidcProviderEnds ==
    /\ pc = "OidcProvider"
    /\ \/ /\ Exit(0)
          /\ UNCHANGED reported
       \/ ErrorExit("oidc-provider deletion failed")
    /\ UNCHANGED <<flagVars, oidcVars, ingressVars, printed, calls, deleted, interactiveOn>>


(***************************************************************************)
(* create ingress: run.                                                    *)
(***************************************************************************)
ingressFlagVars == <<flagVars, oidcVars, printed, deleted, interactiveOn>>

\* lines 90-104: labelMatch := args.labelMatch, asked again when interactive
AskLabelMatch ==
    /\ pc = "AskLabelMatch"
    /\ IF interactiveOn
       THEN \/ /\ ErrorExit("Expected a valid comma-separated list of attributes")
               /\ UNCHANGED labelMatch
            \/ /\ \E answer \in LabelStrings : labelMatch' = answer
               /\ Goto("GetRouteSelector")
               /\ UNCHANGED reported
       ELSE /\ Goto("GetRouteSelector")
            /\ UNCHANGED <<labelMatch, reported>>
    /\ UNCHANGED <<ingressFlagVars, calls, routeSelectors, cluster, private, nlb,
                   ingress, ingresses>>

\* routeSelectors, err := getRouteSelector(labelMatch)
GetRouteSelector ==
    /\ pc = "GetRouteSelector"
    /\ LET parsed == getRouteSelector(labelMatch)
       IN IF parsed.err
          THEN /\ ErrorExit("Expected key=value format for label-match")
               /\ UNCHANGED routeSelectors
          ELSE /\ routeSelectors' = parsed.sel
               /\ Goto("FetchCluster")
               /\ UNCHANGED reported
    /\ UNCHANGED <<ingressFlagVars, calls, labelMatch, cluster, private, nlb,
                   ingress, ingresses>>

\* cluster := r.FetchCluster(): the request
FetchCluster ==
    /\ pc = "FetchCluster"
    /\ Issue("GetCluster", "")
    /\ Goto("FetchClusterWait")
    /\ UNCHANGED <<ingressFlagVars, reported, labelMatch, routeSelectors, cluster,
                   private, nlb, ingress, ingresses>>

\* the control plane answers with the cluster
FetchClusterReturns ==
    /\ pc = "FetchClusterWait"
    /\ Pending("GetCluster")
    /\ Return("ok")
    /\ \E pl \in BOOLEAN, st \in ClusterStates :
          cluster' = [fetched |-> TRUE, privateLink |-> pl, state |-> st]
    /\ Goto("CheckCluster")
    /\ UNCHANGED <<ingressFlagVars, reported, labelMatch, routeSelectors,
                   private, nlb, ingress, ingresses>>

\* the request for the cluster fails: the error is reported and the
\* process exits
FetchClusterFails ==
    /\ pc = "FetchClusterWait"
    /\ Pending("GetCluster")
    /\ Return("failed")
    /\ ErrorExit("Failed to get cluster")
    /\ UNCHANGED <<ingressFlagVars, labelMatch, routeSelectors, cluster,
                   private, nlb, ingress, ingresses>>

\* variant: the state of the cluster is not checked
CheckCluster_NoReadyCheck ==
    /\ pc = "CheckCluster"
    /\ IF cluster.privateLink
       THEN ErrorExit("Cluster is PrivateLink and does not support creating new ingresses")
       ELSE /\ Goto("AskPrivate")
            /\ UNCHANGED reported
    /\ UNCHANGED <<ingressFlagVars, calls, ingressVars>>

\* lines 112-120
CheckCluster ==
    /\ pc = "CheckCluster"
    /\ IF cluster.privateLink
       THEN ErrorExit("Cluster is PrivateLink and does not support creating new ingresses")
       ELSE IF cluster.state # ClusterStateReady
       THEN ErrorExit("Cluster is not yet ready")
       ELSE /\ Goto("AskPrivate")
            /\ UNCHANGED reported
    /\ UNCHANGED <<ingressFlagVars, calls, ingressVars>>

\* lines 124-135: private := args.private, asked again when interactive
AskPrivate ==
    /\ pc = "AskPrivate"
    /\ IF interactiveOn
       THEN \/ /\ ErrorExit("Expected a valid private value")
               /\ UNCHANGED private
            \/ /\ \E answer \in BOOLEAN : private' = answer
               /\ Goto("AskNlb")
               /\ UNCHANGED reported
       ELSE /\ Goto("AskNlb")
            /\ UNCHANGED <<private, reported>>
    /\ UNCHANGED <<ingressFlagVars, calls, labelMatch, routeSelectors, cluster, nlb,
                   ingress, ingresses>>

\* lines 137-148: nlb := args.nlb, asked again when interactive
AskNlb ==
    /\ pc = "AskNlb"
    /\ IF interactiveOn
       THEN \/ /\ ErrorExit("Expected a valid nlb value")
               /\ UNCHANGED nlb
            \/ /\ \E answer \in BOOLEAN : nlb' = answer
               /\ Goto("BuildIngress")
               /\ UNCHANGED reported
       ELSE /\ Goto("BuildIngress")
            /\ UNCHANGED <<nlb, reported>>
    /\ UNCHANGED <<ingressFlagVars, calls, labelMatch, routeSelectors, cluster, private,
                   ingress, ingresses>>

\* variant: the listening methods are exchanged
IngressOf_ListeningExchanged(isPrivate, isNlb, selectors) ==
    [built |-> TRUE,
     listening |-> IF isPrivate THEN "external" ELSE "internal",
     loadBalancerType |-> IF isNlb THEN "nlb" ELSE "classic",
     hasRouteSelectors |-> DOMAIN selectors # {},
     routeSelectors |-> IF DOMAIN selectors # {} THEN selectors ELSE EmptyMap]

\* lines 150-164: the ingress the builder holds
IngressOf(isPrivate, isNlb, selectors) ==
    [built |-> TRUE,
     listening |-> IF isPrivate THEN "internal" ELSE "external",
     loadBalancerType |-> IF isNlb THEN "nlb" ELSE "classic",
     hasRouteSelectors |-> DOMAIN selectors # {},
     routeSelectors |-> IF DOMAIN selectors # {} THEN selectors ELSE EmptyMap]

\* lines 150-171: ingressBuilder.Build() and the request to create it
BuildIngress ==
    /\ pc = "BuildIngress"
    /\ \/ /\ ErrorExit("Failed to create ingress for cluster")
          /\ UNCHANGED <<ingress, calls>>
       \/ /\ ingress' = IngressOf(private, nlb, routeSelectors)
          /\ Issue("CreateIngress", ingress')
          /\ Goto("CreateIngress")
          /\ UNCHANGED reported
    /\ UNCHANGED <<ingressFlagVars, labelMatch, routeSelectors, cluster, private, nlb,
                   ingresses>>

\* variant: a failed CreateIngress is issued a second time
CreateIngressReturns_Retries ==
    /\ pc = "CreateIngress"
    /\ Pending("CreateIngress")
    /\ \/ /\ Len(calls) >= 3
          /\ Return("failed")
          /\ ErrorExit("Failed to add ingress to cluster")
          /\ UNCHANGED ingresses
       \/ /\ Len(calls) < 3
          /\ calls' = Append([calls EXCEPT ![Len(calls)].status = "failed"],
                             [op |-> "CreateIngress", arg |-> ingress,
                              status |-> "inflight", result |-> "none"])
          /\ Goto("CreateIngress")
          /\ UNCHANGED <<reported, ingresses>>
       \/ /\ Return("ok")
          /\ ingresses' = Append(ingresses, ingress)
          /\ reported' = reported \o
                <<[level |-> "info", msg |-> "Ingress has been created on cluster"],
                  [level |-> "info", msg |-> "To view all ingresses, run 'rosa list ingresses'"]>>
          /\ Exit(0)
    /\ UNCHANGED <<ingressFlagVars, labelMatch, routeSelectors, cluster, private, nlb,
                   ingress>>

\* lines 171-179
CreateIngressReturns ==
    /\ pc = "CreateIngress"
    /\ Pending("CreateIngress")
    /\ \/ /\ Return("failed")
          /\ ErrorExit("Failed to add ingress to cluster")
          /\ UNCHANGED ingresses
       \/ /\ Return("ok")
          /\ ingresses' = Append(ingresses, ingress)
          /\ reported' = reported \o
                <<[level |-> "info", msg |-> "Ingress has been created on cluster"],
                  [level |-> "info", msg |-> "To view all ingresses, run 'rosa list ingresses'"]>>
          /\ Exit(0)
    /\ UNCHANGED <<ingressFlagVars, labelMatch, routeSelectors, cluster, private, nlb,
                   ingress>>

(***************************************************************************)
(* Specification.                                                          *)
(***************************************************************************)
Next ==
    \/ GetMode
    \/ CheckRedHatHosted
    \/ GetRegion
    \/ EnableInteractive
    \/ AskMode
    \/ AskSecretArn
    \/ BuildOidcConfigInput
    \/ HasAClusterUsingOidcConfigReturns
    \/ GetOidcConfigStrategy
    \/ HostedExecute
    \/ HostedDeleteOidcConfigReturns
    \/ HostedDeleteSecret
    \/ HostedDeleteSecretReturns
    \/ AutoExecute
    \/ AutoDeleteSecretReturns
    \/ AutoDeleteS3Bucket
    \/ AutoDeleteS3BucketReturns
    \/ ManualExecute
    \/ RunOidcProvider
    \/ OidcProviderEnds
    \/ AskLabelMatch
    \/ GetRouteSelector
    \/ FetchCluster
    \/ FetchClusterReturns
    \/ FetchClusterFails
    \/ CheckCluster
    \/ AskPrivate
    \/ AskNlb
    \/ BuildIngress
    \/ CreateIngressReturns

Spec == Init /\ [][Next]_vars

(***************************************************************************)
(* getOidcConfigStrategy on its own: every mode string, both values of     *)
(* args.redHatHosted and every input, then the selection step of run.      *)
(***************************************************************************)
BucketNames == [prefix : {""}, parts : SeqsUpTo(PartChars, MaxParts) \ {<<>>}]

InitSelection ==
    /\ InitCommon
    /\ cmd = DeleteOidcConfigCmd
    /\ pc = "GetOidcConfigStrategy"
    /\ redHatHosted \in BOOLEAN
    /\ modeChanged \in BOOLEAN
    /\ mode \in ModeStrings
    /\ region \in Regions
    /\ secretArn \in {a \in ValidArns : a.Service = secretsManagerService /\ a.Region = region}
    /\ bucketName \in BucketNames
    /\ oidcConfigInput = [BucketName |-> bucketName, PrivateKeySecretArn |-> secretArn]
    /\ labelMatch = <<>>
    /\ private = FALSE
    /\ nlb = FALSE

SpecSelection == InitSelection /\ [][GetOidcConfigStrategy]_vars

TypeOK ==
    /\ cmd \in {DeleteOidcConfigCmd, CreateIngressCmd}
    /\ exitCode \in {-1, 0, 1}
    /\ (pc = "exited") = (exitCode # -1)
    /\ mode \in ModeStrings
    /\ region \in Regions \cup {""}
    /\ secretArn \in ArnValues
    /\ strategy.type \in {NoStrategy, HostedStrategy, AutoStrategy, ManualStrategy}
    /\ deleted \subseteq {"secret", "bucket", "hosted oidc config"}
    /\ labelMatch \in LabelStrings


(***************************************************************************)
(* Views of the state used by the properties.                              *)
(***************************************************************************)
DeleteOps == {"DeleteRedHatHostedOidcConfig", "DeleteSecretInSecretsManager", "DeleteS3Bucket"}

IsDeleteCall(c) == c.op \in DeleteOps

\* the delete calls of the run, in the order of their issue
DeleteCalls == SelectSeq(calls, IsDeleteCall)

OpsOf(cs) == [i \in DOMAIN cs |-> cs[i].op]

Issued(op) == \E i \in DOMAIN calls : calls[i].op = op

IsPrefix(s, t) == Len(s) <= Len(t) /\ s = SubSeq(t, 1, Len(s))

ErrorReported == \E i \in DOMAIN reported : reported[i].level = "error"

ReportedMsg(level, msg) == \E i \in DOMAIN reported : reported[i] = [level |-> level, msg |-> msg]

Ended == pc = "exited"

ProviderStarted == providerArgs # <<>>

\* run is past the interactive mode prompt: mode is the mode in effect
ModeInEffect ==
    /\ cmd = DeleteOidcConfigCmd
    /\ \/ pc \in {"AskSecretArn", "BuildOidcConfigInput", "HasAClusterUsingOidcConfig",
                  "GetOidcConfigStrategy", "Execute", "HostedDeleteOidcConfig",
                  "HostedDeleteSecret", "HostedDeleteSecretWait", "AutoDeleteSecret",
                  "AutoDeleteS3Bucket", "AutoDeleteS3BucketWait", "RunOidcProvider",
                  "OidcProvider"}
       \/ calls # <<>>

(***************************************************************************)
(* C1.  getOidcConfigStrategy produces exactly one outcome for every mode  *)
(* string and every value of the rh-hosted flag: the Red Hat hosted        *)
(* strategy when the flag is set; otherwise the automatic strategy for     *)
(* mode auto, the manual strategy for mode manual, and for any other mode  *)
(* the 'Invalid mode' error and no strategy.                               *)
(***************************************************************************)
InvalidModeReported == ReportedMsg("error", "Invalid mode. Allowed values are [auto manual]")

C1_StrategySelection ==
    pc # "GetOidcConfigStrategy" =>
        /\ (strategy = NilStrategy) # (pc = "Execute")
        /\ (strategy = NilStrategy) = InvalidModeReported
        /\ InvalidModeReported => pc = "exited" /\ exitCode = 1
        /\ strategy # NilStrategy => strategy.oidcConfig = oidcConfigInput
        /\ redHatHosted => strategy.type = HostedStrategy
        /\ ~redHatHosted /\ mode = "auto" => strategy.type = AutoStrategy
        /\ ~redHatHosted /\ mode = "manual" => strategy.type = ManualStrategy
        /\ ~redHatHosted /\ mode \notin {"auto", "manual"} => strategy = NilStrategy

C1_Witness ==
    /\ pc = "exited"
    /\ ~redHatHosted
    /\ mode = "hosted"
    /\ strategy = NilStrategy
    /\ InvalidModeReported

(***************************************************************************)
(* C2.  Abort on first failure: when a remote call of a delete strategy    *)
(* fails, an error is reported, it is the last remote call of the run, the *)
(* OIDC provider deletion is not started and the run has ended.            *)
(***************************************************************************)
C2_AbortOnFirstFailure ==
    \A i \in DOMAIN calls :
        IsDeleteCall(calls[i]) /\ calls[i].status = "failed" =>
            /\ i = Len(calls)
            /\ ErrorReported
            /\ ~ProviderStarted
            /\ Ended
            /\ exitCode = 1

C2_Witness ==
    /\ strategy.type = AutoStrategy
    /\ Len(DeleteCalls) = 1
    /\ DeleteCalls[1].op = "DeleteSecretInSecretsManager"
    /\ DeleteCalls[1].status = "failed"
    /\ Ended

(***************************************************************************)
(* C3.  No rollback, no compensation: when a later remote call of a delete *)
(* strategy fails after an earlier one succeeded, the resource the earlier *)
(* call deleted stays deleted in the final state and the run issues no     *)
(* remote call other than the check and the delete calls of its strategy.  *)
(***************************************************************************)
ResourceOf(op) ==
    CASE op = "DeleteRedHatHostedOidcConfig" -> "hosted oidc config"
      [] op = "DeleteSecretInSecretsManager" -> "secret"
      [] op = "DeleteS3Bucket" -> "bucket"

C3_NoRollback ==
    cmd = DeleteOidcConfigCmd =>
        /\ \A i \in DOMAIN calls :
              calls[i].op \in DeleteOps \cup {"HasAClusterUsingOidcConfig"}
        /\ \A i \in DOMAIN calls :
              IsDeleteCall(calls[i]) /\ calls[i].status = "ok" =>
                  ResourceOf(calls[i].op) \in deleted
        /\ \A i \in DOMAIN calls :
              IsDeleteCall(calls[i]) /\ calls[i].status # "ok" =>
                  ResourceOf(calls[i].op) \notin deleted

C3_Witness ==
    /\ Ended
    /\ Len(DeleteCalls) = 2
    /\ DeleteCalls[1].status = "ok"
    /\ DeleteCalls[2].status = "failed"
    /\ deleted = {ResourceOf(DeleteCalls[1].op)}


(***************************************************************************)
(* C4.  Exit code: a run that has ended has exit code 1 if an error was    *)
(* reported during the run and exit code 0 otherwise.                      *)
(***************************************************************************)
C4_ExitCodeIffErrorReported ==
    Ended => /\ exitCode \in {0, 1}
             /\ (exitCode = 1) = ErrorReported

(***************************************************************************)
(* C5.  Manual mode, as stated: in a run of delete oidc-config whose mode  *)
(* is manual no call to the cloud infrastructure API or to the             *)
(* control-plane API is made.                                              *)
(***************************************************************************)
C5_ManualNoRemoteCall ==
    ModeInEffect /\ mode = ModeManual => calls = <<>>

(***************************************************************************)
(* C5, amended.  In a run of delete oidc-config whose mode in effect is    *)
(* manual and that has no --rh-hosted flag, no delete call is issued and   *)
(* nothing is deleted: the only remote call is the read-only control-plane *)
(* query HasAClusterUsingOidcConfig, the strategy selected is the manual   *)
(* one, and once it has executed the three equivalent commands are         *)
(* printed.                                                                *)
(***************************************************************************)
StrategyExecuted == pc \in {"RunOidcProvider", "OidcProvider"} \/ ProviderStarted

C5_ManualNoDeleteCall ==
    ModeInEffect /\ mode = ModeManual /\ ~redHatHosted =>
        /\ \A i \in DOMAIN calls : calls[i].op = "HasAClusterUsingOidcConfig"
        /\ Len(calls) <= 1
        /\ deleted = {}
        /\ strategy.type \in {NoStrategy, ManualStrategy}
        /\ StrategyExecuted =>
              /\ strategy.type = ManualStrategy
              /\ Len(printed) = 3
              /\ printed[1].command = "DeleteSecret"
              /\ printed[2].command = "Remove"
              /\ printed[3].command = "RemoveBucket"

C5_Witness ==
    /\ mode = ModeManual
    /\ ~redHatHosted
    /\ strategy.type = ManualStrategy
    /\ Len(printed) = 3
    /\ Len(calls) = 1
    /\ calls[1].op = "HasAClusterUsingOidcConfig"
    /\ ProviderStarted

(***************************************************************************)
(* C6.  Each delete strategy performs a fixed ordered sequence of at most  *)
(* three steps.  Automatic: DeleteSecretInSecretsManager, then             *)
(* DeleteS3Bucket only after the secret deletion returned success.  Red    *)
(* Hat hosted: DeleteRedHatHostedOidcConfig, then                          *)
(* DeleteSecretInSecretsManager.  Manual: no remote call, and the printed  *)
(* commands are delete-secret, the recursive removal of the bucket         *)
(* contents, the removal of the bucket, in this order.                     *)
(***************************************************************************)
AutoSequence == <<"DeleteSecretInSecretsManager", "DeleteS3Bucket">>
HostedSequence == <<"DeleteRedHatHostedOidcConfig", "DeleteSecretInSecretsManager">>

OrderedCalls(sequence) ==
    /\ IsPrefix(OpsOf(DeleteCalls), sequence)
    /\ \A i \in DOMAIN DeleteCalls : i < Len(DeleteCalls) => DeleteCalls[i].status = "ok"
    /\ StrategyExecuted =>
          /\ OpsOf(DeleteCalls) = sequence
          /\ \A i \in DOMAIN DeleteCalls : DeleteCalls[i].status = "ok"
    /\ printed = <<>>

C6_OrderedSequences ==
    cmd = DeleteOidcConfigCmd =>
        /\ Len(DeleteCalls) + Len(printed) <= 3
        /\ strategy.type = NoStrategy => DeleteCalls = <<>> /\ printed = <<>>
        /\ strategy.type = AutoStrategy => OrderedCalls(AutoSequence)
        /\ strategy.type = HostedStrategy => OrderedCalls(HostedSequence)
        /\ strategy.type = ManualStrategy =>
              /\ DeleteCalls = <<>>
              /\ pc = "Execute" => printed = <<>>
              /\ pc # "Execute" =>
                    /\ Len(printed) = 3
                    /\ printed[1].builder = "SecretsManager"
                    /\ printed[1].command = "DeleteSecret"
                    /\ printed[2].builder = "S3"
                    /\ printed[2].command = "Remove"
                    /\ printed[2].params[2] = <<"Recursive">>
                    /\ printed[3].builder = "S3"
                    /\ printed[3].command = "RemoveBucket"
                    /\ printed[2].params[1] = printed[3].params[1]

C6_Witness ==
    /\ strategy.type = AutoStrategy
    /\ OpsOf(DeleteCalls) = AutoSequence
    /\ DeleteCalls[1].status = "ok"
    /\ DeleteCalls[2].status = "inflight"

(***************************************************************************)
(* C7.  No retries and strictly sequential calls: within one run each      *)
(* remote operation is issued at most once, a call is issued only after    *)
(* the previous one has returned, and at most one call is in flight.       *)
(***************************************************************************)
InFlight == {i \in DOMAIN calls : calls[i].status = "inflight"}

C7_NoRetrySequential ==
    /\ \A i, j \in DOMAIN calls : calls[i].op = calls[j].op => i = j
    /\ \A i \in DOMAIN calls : calls[i].status = "failed" => i = Len(calls)
    /\ \A i \in InFlight : i = Len(calls)
    /\ Cardinality(InFlight) <= 1

C7_Witness ==
    /\ Len(calls) = 3
    /\ calls[1].status = "ok"
    /\ calls[2].status = "ok"
    /\ calls[3].status = "inflight"

(***************************************************************************)
(* C8.  --rh-hosted is not supported outside the auto mode flow: the Red   *)
(* Hat hosted strategy is executed only if the mode in effect when the     *)
(* strategy is selected is auto, and a run with --rh-hosted and any other  *)
(* mode ends with exit code 1 without issuing any delete call.             *)
(***************************************************************************)
C8_HostedOnlyInAutoMode ==
    /\ strategy.type = HostedStrategy => mode = ModeAuto
    /\ ModeInEffect /\ redHatHosted /\ mode # ModeAuto => DeleteCalls = <<>>
    /\ Ended /\ ModeInEffect /\ redHatHosted /\ mode # ModeAuto => exitCode = 1

(***************************************************************************)
(* C9.  An OIDC configuration in use cannot be deleted: if the control     *)
(* plane reports a cluster using the OIDC config, or the check fails, the  *)
(* run reports an error and ends without any delete call, without printed  *)
(* manual commands and without starting the OIDC provider deletion.        *)
(***************************************************************************)
InUseOrCheckFailed ==
    \E i \in DOMAIN calls :
        /\ calls[i].op = "HasAClusterUsingOidcConfig"
        /\ \/ calls[i].status = "failed"
           \/ calls[i].status = "ok" /\ calls[i].result = TRUE

C9_InUseNotDeleted ==
    InUseOrCheckFailed =>
        /\ Ended
        /\ exitCode = 1
        /\ ErrorReported
        /\ DeleteCalls = <<>>
        /\ deleted = {}
        /\ printed = <<>>
        /\ ~ProviderStarted
        /\ strategy = NilStrategy

C9_Witness ==
    /\ Len(calls) = 1
    /\ calls[1].op = "HasAClusterUsingOidcConfig"
    /\ calls[1].status = "ok"
    /\ calls[1].result = TRUE
    /\ Ended

(***************************************************************************)
(* C10.  create ingress calls CreateIngress only for a fetched cluster     *)
(* that is not PrivateLink and is ready, and only after the label-match    *)
(* value was parsed successfully; for a PrivateLink cluster, a cluster     *)
(* that is not ready or an invalid label-match the run reports an error    *)
(* and exits with code 1 without calling CreateIngress.                    *)
(***************************************************************************)
LabelMatchParsed == pc \notin {"AskLabelMatch", "GetRouteSelector"} \/ calls # <<>>

ClusterChecked == cluster.fetched /\ pc # "CheckCluster"

C10_CreateIngressGuarded ==
    cmd = CreateIngressCmd =>
        /\ Issued("CreateIngress") =>
              /\ cluster.fetched
              /\ ~cluster.privateLink
              /\ cluster.state = ClusterStateReady
              /\ ~getRouteSelector(labelMatch).err
              /\ routeSelectors = getRouteSelector(labelMatch).sel
        /\ ClusterChecked /\ (cluster.privateLink \/ cluster.state # ClusterStateReady) =>
              /\ Ended
              /\ exitCode = 1
              /\ ErrorReported
              /\ ~Issued("CreateIngress")
        /\ LabelMatchParsed /\ getRouteSelector(labelMatch).err =>
              /\ Ended
              /\ exitCode = 1
              /\ ErrorReported
              /\ calls = <<>>

C10_Witness ==
    /\ Issued("CreateIngress")
    /\ labelMatch = <<"a", "=", "a">>
    /\ ingresses # <<>>


(***************************************************************************)
(* getRouteSelector and labelValidator on their own: every label-match     *)
(* string, parsed by the step of run and given to the validator.           *)
(***************************************************************************)
InitRouteSelector ==
    /\ InitCommon
    /\ InitLocals
    /\ cmd = CreateIngressCmd
    /\ pc = "GetRouteSelector"
    /\ redHatHosted = FALSE
    /\ modeChanged = FALSE
    /\ secretArn = EmptyArn
    /\ labelMatch \in LabelStrings
    /\ private = FALSE
    /\ nlb = FALSE

\* labelValidator(val) for the string val = labelMatch
LabelValidator ==
    /\ unit = NoUnit
    /\ unit' = [fn |-> "labelValidator", val |-> labelMatch,
                accepted |-> labelValidator(labelMatch)]
    /\ UNCHANGED <<cmd, pc, exitCode, reported, printed, calls, deleted, isTerminal,
                   interactiveOn, redHatHosted, modeChanged, oidcVars, ingressVars>>

NextRouteSelector == GetRouteSelector \/ LabelValidator

SpecRouteSelector == InitRouteSelector /\ [][NextRouteSelector]_vars

(***************************************************************************)
(* C11.  The label-match value must be a comma-separated list of           *)
(* key=value: getRouteSelector returns an empty map for the empty string,  *)
(* returns an error if and only if some comma-separated element is not of  *)
(* the form key=value, and otherwise returns a map that holds, for every   *)
(* element, its trimmed key mapped to its trimmed value; labelValidator    *)
(* accepts exactly the strings for which getRouteSelector succeeds.        *)
(***************************************************************************)
CountOf(s, c) == Cardinality({i \in 1..Len(s) : s[i] = c})

\* one key, one "=", one value
IsKeyValue(element) == CountOf(element, "=") = 1

KeyOf(element) == SubSeq(element, 1, IndexFrom(element, "=", 1) - 1)

ValueOf(element) == SubSeq(element, IndexFrom(element, "=", 1) + 1, Len(element))

ElementsOf(s) == LET elems == Split(s, ",") IN {elems[i] : i \in DOMAIN elems}

RouteSelectorParsed == pc \in {"FetchCluster", "exited"}

RouteSelectorError ==
    /\ pc = "exited"
    /\ ReportedMsg("error", "Expected key=value format for label-match")

C11_RouteSelectorKeyValue ==
    /\ RouteSelectorParsed /\ labelMatch = <<>> =>
          ~RouteSelectorError /\ routeSelectors = EmptyMap
    /\ RouteSelectorParsed /\ labelMatch # <<>> =>
          /\ RouteSelectorError = (\E e \in ElementsOf(labelMatch) : ~IsKeyValue(e))
          /\ ~RouteSelectorError =>
                \A e \in ElementsOf(labelMatch) :
                    /\ TrimSpace(KeyOf(e)) \in DOMAIN routeSelectors
                    /\ routeSelectors[TrimSpace(KeyOf(e))] = TrimSpace(ValueOf(e))
    /\ RouteSelectorParsed /\ unit # NoUnit =>
          unit.accepted = ~RouteSelectorError


(***************************************************************************)
(* Functions applied on their own: no command runs.                        *)
(***************************************************************************)
InitNoRun ==
    /\ cmd = "none"
    /\ pc = "unit"
    /\ exitCode = -1
    /\ reported = <<>>
    /\ printed = <<>>
    /\ calls = <<>>
    /\ deleted = {}
    /\ isTerminal = FALSE
    /\ interactiveOn = FALSE
    /\ redHatHosted = FALSE
    /\ modeChanged = FALSE
    /\ secretArn = EmptyArn
    /\ strategy = NilStrategy
    /\ providerArgs = <<>>
    /\ labelMatch = <<>>
    /\ routeSelectors = EmptyMap
    /\ cluster = NoCluster
    /\ private = FALSE
    /\ nlb = FALSE
    /\ ingress = NoIngress
    /\ ingresses = <<>>
    /\ InitLocals

runVars == <<cmd, pc, exitCode, reported, printed, calls, deleted, isTerminal,
             interactiveOn, redHatHosted, modeChanged, oidcVars, ingressVars>>

(***************************************************************************)
(* createAwsNodePoolBuilder of create machinepool and the Build of the     *)
(* builder it returns.                                                     *)
(***************************************************************************)
\* most security group ids of a node pool
MaxSecurityGroups == 2

InstanceTypes == {"123", "m5.xlarge"}
SecurityGroupIdLists == SeqsUpTo({"123", "sg-1"}, MaxSecurityGroups)
TagMaps == UNION {[keys -> {"value", "prod"}] : keys \in SUBSET {"label", "env"}}

\* variant: the tags are not handed to the builder
createAwsNodePoolBuilder_NoTags(instanceType, securityGroupIds, awsTags) ==
    [InstanceType |-> instanceType,
     AdditionalSecurityGroupIds |-> securityGroupIds,
     Tags |-> [k \in {} |-> ""]]

\* the builder holds the instance type, the security group ids when there
\* are some and the tags when there are some; a field never set reads as
\* empty
createAwsNodePoolBuilder(instanceType, securityGroupIds, awsTags) ==
    [InstanceType |-> instanceType,
     AdditionalSecurityGroupIds |-> IF Len(securityGroupIds) > 0 THEN securityGroupIds ELSE <<>>,
     Tags |-> IF DOMAIN awsTags # {} THEN awsTags ELSE [k \in {} |-> ""]]

\* awsNpBuilder.Build(): the node pool with the fields of the builder
AwsNodePoolBuild(builder) == [err |-> FALSE, awsNodePool |-> builder]

InitNodePool ==
    /\ InitNoRun
    /\ \E instanceType \in InstanceTypes, securityGroupIds \in SecurityGroupIdLists,
          awsTags \in TagMaps :
          unit = [fn |-> "createAwsNodePoolBuilder", done |-> FALSE,
                  instanceType |-> instanceType, securityGroupIds |-> securityGroupIds,
                  awsTags |-> awsTags, err |-> FALSE,
                  awsNodePool |-> createAwsNodePoolBuilder("", <<>>, [k \in {} |-> ""])]

CreateAwsNodePool ==
    /\ unit.fn = "createAwsNodePoolBuilder"
    /\ ~unit.done
    /\ LET built == AwsNodePoolBuild(createAwsNodePoolBuilder(
                        unit.instanceType, unit.securityGroupIds, unit.awsTags))
       IN unit' = [unit EXCEPT !.done = TRUE, !.err = built.err,
                               !.awsNodePool = built.awsNodePool]
    /\ UNCHANGED runVars

SpecNodePool == InitNodePool /\ [][CreateAwsNodePool]_vars

(***************************************************************************)
(* C12.  createAwsNodePoolBuilder(instanceType, securityGroupIds, awsTags) *)
(* builds, without failure, a node pool whose instance type is             *)
(* instanceType, whose additional security group ids are securityGroupIds  *)
(* (none when the list is empty) and whose tags are awsTags (none when the *)
(* map is empty).                                                          *)
(***************************************************************************)
C12_NodePoolHoldsInputs ==
    unit.fn = "createAwsNodePoolBuilder" /\ unit.done =>
        /\ ~unit.err
        /\ unit.awsNodePool.InstanceType = unit.instanceType
        /\ unit.awsNodePool.AdditionalSecurityGroupIds = unit.securityGroupIds
        /\ unit.securityGroupIds = <<>> => Len(unit.awsNodePool.AdditionalSecurityGroupIds) = 0
        /\ DOMAIN unit.awsNodePool.Tags = DOMAIN unit.awsTags
        /\ \A k \in DOMAIN unit.awsTags : unit.awsNodePool.Tags[k] = unit.awsTags[k]
        /\ DOMAIN unit.awsTags = {} => DOMAIN unit.awsNodePool.Tags = {}

C12_Witness ==
    /\ unit.fn = "createAwsNodePoolBuilder"
    /\ unit.done
    /\ unit.instanceType = "123"
    /\ unit.securityGroupIds = <<"123">>
    /\ DOMAIN unit.awsTags = {"label"}
    /\ unit.awsNodePool.Tags["label"] = "value"


(***************************************************************************)
(* helper.RemoveStrFromSlice                                               *)
(***************************************************************************)
\* longest slice
MaxSliceLen == 3

SliceStrings == {"a", "b", "c"}
Slices == SeqsUpTo(SliceStrings, MaxSliceLen)

\* variant: every occurrence of str is removed
RemoveStrFromSlice_RemovesAll(s, str) ==
    LET IsOther(v) == v # str
    IN [result |-> SelectSeq(s, IsOther), backing |-> s]

\* the range loop returns at the first i with s[i] = str.  append(s[:i],
\* s[i+1:]...) has the capacity it needs and moves the tail one place down
\* in the array of s: result is the slice returned, backing is what the
\* caller's slice s holds afterwards.
RemoveStrFromSlice(s, str) ==
    LET i == IndexFrom(s, str, 1)
        moved == [k \in 1..Len(s) |-> IF k < i THEN s[k]
                                      ELSE IF k < Len(s) THEN s[k + 1]
                                      ELSE s[k]]
    IN IF i = 0 THEN [result |-> s, backing |-> s]
       ELSE [result |-> SubSeq(moved, 1, Len(s) - 1), backing |-> moved]

InitRemoveStr ==
    /\ InitNoRun
    /\ \E s \in Slices, str \in SliceStrings \cup {"d"} :
          unit = [fn |-> "RemoveStrFromSlice", done |-> FALSE, s |-> s, str |-> str,
                  result |-> <<>>, backing |-> s]

RemoveStr ==
    /\ unit.fn = "RemoveStrFromSlice"
    /\ ~unit.done
    /\ LET r == RemoveStrFromSlice(unit.s, unit.str)
       IN unit' = [unit EXCEPT !.done = TRUE, !.result = r.result, !.backing = r.backing]
    /\ UNCHANGED runVars

SpecRemoveStr == InitRemoveStr /\ [][RemoveStr]_vars

(***************************************************************************)
(* C13.  RemoveStrFromSlice(s, str) removes one occurrence of str if it    *)
(* exists: when str occurs in s the result is s without its first          *)
(* occurrence of str, the other elements in their order and one element    *)
(* fewer; when str does not occur the result equals s.                     *)
(***************************************************************************)
Occurs(s, str) == \E i \in DOMAIN s : s[i] = str

IsFirstOccurrence(s, str, i) ==
    /\ i \in DOMAIN s
    /\ s[i] = str
    /\ \A j \in 1..(i - 1) : s[j] # str

C13_RemovesFirstOccurrence ==
    unit.fn = "RemoveStrFromSlice" /\ unit.done =>
        /\ ~Occurs(unit.s, unit.str) => unit.result = unit.s
        /\ Occurs(unit.s, unit.str) =>
              /\ Len(unit.result) = Len(unit.s) - 1
              /\ \E i \in DOMAIN unit.s :
                    /\ IsFirstOccurrence(unit.s, unit.str, i)
                    /\ unit.result = SubSeq(unit.s, 1, i - 1) \o
                                     SubSeq(unit.s, i + 1, Len(unit.s))

C13_Witness ==
    /\ unit.fn = "RemoveStrFromSlice"
    /\ unit.done
    /\ unit.s = <<"a", "b", "a">>
    /\ unit.str = "a"
    /\ unit.result = <<"b", "a">>


(***************************************************************************)
(* interactive.IsCert                                                      *)
(***************************************************************************)
doubleQuotesToRemove == <<"\"", "\"">>

Pem == <<"p", "e", "m">>
CaBundle == <<"c", "a", "-", "b", "u", "n", "d", "l", "e">>
Key == <<"k", "e", "y">>

\* the strings ce?rt? matches
CertAlternatives ==
    {<<"c">> \o e \o <<"r">> \o t : e \in {<<>>, <<"e">>}, t \in {<<>>, <<"t">>}}

\* regexp.MatchString("\\.(pem|ca-bundle|ce?rt?|key)$", s): a dot, one of
\* the alternatives, the end of the string
MatchValidExtension(s) ==
    \E i \in DOMAIN s :
        /\ s[i] = "."
        /\ SubSeq(s, i + 1, Len(s)) \in {Pem, CaBundle, Key} \cup CertAlternatives

\* file paths given to the validator: the file a in the directory d, with
\* each of these endings
CertPathTails ==
    {<<>>, <<".">> \o Pem, <<".">> \o CaBundle, <<".">> \o Key,
     <<".", "c", "r">>, <<".", "c", "e", "r">>, <<".", "c", "r", "t">>,
     <<".", "c", "e", "r", "t">>, <<".", "c", "t">>, <<".", "c", "e">>,
     <<".", "t", "x", "t">>, <<"p", "e", "m">>, <<".", "p", "e", "m", ".", "b">>,
     <<".", "c", "e", "r", "t", "s">>}

CertPaths ==
    {<<>>, doubleQuotesToRemove} \cup {<<"d", "/", "a">> \o tail : tail \in CertPathTails}

\* the values of the interface{} parameter
CertValues ==
    {[type |-> "nil", s |-> <<>>], [type |-> "int", s |-> <<>>]}
        \cup [type : {"string"}, s : CertPaths]

\* what os.Stat returns for the path, with whether the file exists: "nil"
\* for a file that is there, ENOENT for one that is not, and the errors
\* that say neither
StatResults ==
    {[err |-> "nil", exists |-> TRUE],
     [err |-> "ENOENT", exists |-> FALSE],
     [err |-> "ENOTDIR", exists |-> FALSE],
     [err |-> "ENAMETOOLONG", exists |-> FALSE],
     [err |-> "EACCES", exists |-> TRUE],
     [err |-> "EACCES", exists |-> FALSE]}

\* os.IsNotExist(err)
IsNotExist(err) == err = "ENOENT"

\* the error IsCert returns, "nil" for none
IsCert(filepath, stat) ==
    IF filepath.type = "nil" THEN "nil"
    ELSE IF filepath.type = "string"
    THEN IF filepath.s = <<>> THEN "nil"
         ELSE IF filepath.s = doubleQuotesToRemove THEN "nil"
         ELSE IF ~MatchValidExtension(filepath.s)
         THEN "file does not have a valid file extension"
         ELSE IF ~IsNotExist(stat.err) THEN "nil"
         ELSE "file does not exist on the file system"
    ELSE "can only validate strings"

InitIsCert ==
    /\ InitNoRun
    /\ \E filepath \in CertValues, stat \in StatResults :
          unit = [fn |-> "IsCert", done |-> FALSE, filepath |-> filepath, stat |-> stat,
                  err |-> "nil"]

ApplyIsCert ==
    /\ unit.fn = "IsCert"
    /\ ~unit.done
    /\ unit' = [unit EXCEPT !.done = TRUE, !.err = IsCert(unit.filepath, unit.stat)]
    /\ UNCHANGED runVars

SpecIsCert == InitIsCert /\ [][ApplyIsCert]_vars

(***************************************************************************)
(* C14.  IsCert validates that the file path is a valid cert file: nil,    *)
(* the empty string and the string of two double quotes are accepted; any  *)
(* other string is accepted only if it ends in one of the extensions .pem, *)
(* .ca-bundle, .crt, .cer, .cert, .ct, .cr or .key and the file exists on  *)
(* the file system; a value that is not a string is rejected.              *)
(***************************************************************************)
HasSuffix(s, suffix) ==
    /\ Len(suffix) <= Len(s)
    /\ SubSeq(s, Len(s) - Len(suffix) + 1, Len(s)) = suffix

ClaimedExtensions ==
    {<<".">> \o Pem, <<".">> \o CaBundle, <<".">> \o Key,
     <<".", "c", "r", "t">>, <<".", "c", "e", "r">>, <<".", "c", "e", "r", "t">>,
     <<".", "c", "t">>, <<".", "c", "r">>}

C14_CertAcceptedOnlyIfExists ==
    unit.fn = "IsCert" /\ unit.done =>
        LET v == unit.filepath
            accepted == unit.err = "nil"
        IN /\ v.type = "nil" => accepted
           /\ v.type = "string" /\ v.s \in {<<>>, doubleQuotesToRemove} => accepted
           /\ v.type = "string" /\ v.s \notin {<<>>, doubleQuotesToRemove} /\ accepted =>
                 /\ \E ext \in ClaimedExtensions : HasSuffix(v.s, ext)
                 /\ unit.stat.exists
           /\ v.type \notin {"nil", "string"} => ~accepted


(***************************************************************************)
(* C15.  The ingress sent by create ingress reflects the chosen options:   *)
(* it listens internally if and only if private is true (externally        *)
(* otherwise), its load balancer is an NLB if and only if nlb is true      *)
(* (classic otherwise), and route selectors are set on it if and only if   *)
(* the parsed label-match map is not empty, and then they are that map.    *)
(***************************************************************************)
SentIngresses == {calls[i].arg : i \in {j \in DOMAIN calls : calls[j].op = "CreateIngress"}}

C15_IngressReflectsOptions ==
    cmd = CreateIngressCmd =>
        \A sent \in SentIngresses :
            /\ sent.listening = (IF private THEN "internal" ELSE "external")
            /\ sent.loadBalancerType = (IF nlb THEN "nlb" ELSE "classic")
            /\ routeSelectors = getRouteSelector(labelMatch).sel
            /\ sent.hasRouteSelectors = (DOMAIN routeSelectors # {})
            /\ sent.hasRouteSelectors => sent.routeSelectors = routeSelectors
            /\ \A created \in {ingresses[i] : i \in DOMAIN ingresses} : created = sent

C15_Witness ==
    /\ cmd = CreateIngressCmd
    /\ private
    /\ ~nlb
    /\ labelMatch = <<"a", "=", "a">>
    /\ \E sent \in SentIngresses :
          /\ sent.listening = "internal"
          /\ sent.loadBalancerType = "classic"
          /\ sent.hasRouteSelectors
    /\ ingresses # <<>>

(***************************************************************************)
(* C16.  In delete oidc-config the OIDC provider deletion is started only  *)
(* after the selected strategy has completed without error, it is started  *)
(* exactly once whichever strategy ran (automatic, manual, hosted), and it *)
(* receives the mode of the run and the URL                                *)
(* https://<bucket name>.s3.<region>.amazonaws.com of the bucket name and  *)
(* the region the strategy used.                                           *)
(***************************************************************************)
AllOk(cs) == \A i \in DOMAIN cs : cs[i].status = "ok"

StrategyCompleted ==
    \/ /\ strategy.type = AutoStrategy
       /\ OpsOf(DeleteCalls) = AutoSequence
       /\ AllOk(DeleteCalls)
    \/ /\ strategy.type = HostedStrategy
       /\ OpsOf(DeleteCalls) = HostedSequence
       /\ AllOk(DeleteCalls)
    \/ /\ strategy.type = ManualStrategy
       /\ DeleteCalls = <<>>
       /\ Len(printed) = 3

C16_ProviderDeletionAfterStrategy ==
    cmd = DeleteOidcConfigCmd =>
        /\ Len(providerArgs) <= 1
        /\ ProviderStarted =>
              /\ StrategyCompleted
              /\ AllOk(calls)
              /\ pc = "OidcProvider" => ~ErrorReported
              /\ providerArgs[1].mode = mode
              /\ providerArgs[1].url =
                    <<"https://", strategy.oidcConfig.BucketName, ".s3.", region,
                      ".amazonaws.com">>
              /\ strategy.type = AutoStrategy =>
                    DeleteCalls[2].arg = strategy.oidcConfig.BucketName
              /\ strategy.type = ManualStrategy =>
                    /\ printed[1].params[2] = <<"Region", region>>
                    /\ printed[3].params[1] = <<"s3://", strategy.oidcConfig.BucketName>>
        /\ StrategyCompleted /\ pc \in {"OidcProvider", "exited"} => ProviderStarted

C16_Witness ==
    /\ strategy.type = HostedStrategy
    /\ mode = ModeAuto
    /\ pc = "OidcProvider"
    /\ Len(providerArgs) = 1
    /\ providerArgs[1].mode = ModeAuto
    /\ providerArgs[1].url[4] = "us-west-2"

====
